---- MODULE Spec2Model ----
(***************************************************************************)
(* A model of the council orchestrator (src/council.py): the group-chat    *)
(* round (run_one_round), the tagged debate (run_tagged_debate), the       *)
(* parallel-response step (step_2_parallel_responses), the decision        *)
(* aggregation (_weighted_decision, _majority_voting), and the step-level  *)
(* protocol: step_2_5_debate, step_3_synthesis, step_4_final_decision and  *)
(* run_council.                                                            *)
(*                                                                         *)
(* Text is modelled as a sequence of one-character strings, so that        *)
(* strip(), upper(), lower(), startswith() and the substring test are      *)
(* computed as Python computes them.  Time is the number of time units     *)
(* elapsed since the round's calls were submitted to the thread pool.      *)
(***************************************************************************)
EXTENDS Integers, Sequences, FiniteSets, TLC

VARIABLES
    conversation_history,  \* the caller's list, shared by rounds and debates
    calls,                 \* number of orchestrator calls the caller has made
    \* ---- run_one_round
    rd_pc,                 \* "idle" | "collect" | "shutdown" | "returned"
    is_first_round,
    conversation_context,  \* the context string built at line 582
    futures,               \* alias -> the submitted call's behaviour
    submitted,             \* alias -> the prompt and context passed to its call
    rd_idx,                \* position of the collection loop in futures.items()
    got,                   \* alias -> how future.result(timeout=60) ended
    now,                   \* time units since the calls were submitted
    new_messages,
    h0,                    \* conversation_history as it stood when the call began
    \* ---- run_tagged_debate
    db_pc,                 \* "idle" | "respond" | "check" | "finish" | "returned"
    tagged_agents,
    participating_agents,  \* keys of the filtered dict, in insertion order
    debate_history,
    debate_messages,
    exchange_messages,
    exchange,              \* range(max_exchanges) index, from 0
    db_idx,                \* position in participating_agents.items()
    exchanges_run,         \* how many exchange bodies have been entered
    replies_log,           \* per exchange, the replies chat_response returned in it
    call_log,              \* the chat_response calls made, with their start and end times
    \* ---- step_1_broadcast / step_2_parallel_responses
    s2_pc,                 \* "none" | "idle" | "collect" | "store_role" | "assign" | "returned"
    s2_calls,              \* number of calls of step 2 made on the state
    s2_futures,            \* role -> the submitted analyze call: running, or its outcome
    s2_now,                \* time units since the analyze calls were submitted
    s2_handled,            \* `completed`: the roles whose future has been handled
    s2_current,            \* the future as_completed yielded, being handled
    agent_responses,       \* the local dict of step 2
    state_agent_responses, \* state["agent_responses"]
    current_step,          \* state["current_step"], in tenths (25 is step 2.5)
    \* ---- the rest of CouncilState and the step-level caller
    state_group_chat,      \* state["group_chat"]: Nothing while the key is absent
    state_synthesis_output,\* state["synthesis_output"]: Nothing while None
    state_final_decision,  \* state["final_decision"]: Nothing while None
    step_trace,            \* the values current_step has been given, in order
    step_calls,            \* number of step-level calls made on the state
    call_trace,            \* the step-level calls made on the state, in order
    step_raised,           \* the last step-level call raised to its caller
    use_weighted_model,    \* self.use_weighted_model
    \* ---- step_2_5_debate
    d25_pc,                \* "idle" | "respond" | "store"
    rounds,
    round_num,             \* range(rounds) index, from 0
    d25_idx,               \* position in agents.items()
    d25_history,           \* the step's local conversation_history
    group_chat_messages,
    d25_calls,             \* the chat_response calls made, with their arguments
    \* ---- _weighted_decision / _majority_voting
    dc_pc,                 \* the aggregation strategies called so far
    weights,               \* self.weights
    in_agent_responses,
    in_synthesis_output,
    weighted_record,
    majority_record,
    \* ---- run_group_chat
    gc_pc,                 \* "idle" | "running" | "store" | "returned"
    gc_user_message,
    chat_rounds,
    gc_messages,           \* the local group_chat_messages of run_group_chat
    round_log,             \* what each call of run_one_round returned, in order
    state_conversation_history \* state["conversation_history"]: Nothing while absent

chatVars == <<conversation_history, calls>>
roundVars == <<rd_pc, is_first_round, conversation_context, futures, submitted,
               rd_idx, got, now, new_messages, h0>>
debateVars == <<db_pc, tagged_agents, participating_agents, debate_history,
                debate_messages, exchange_messages, exchange, db_idx,
                exchanges_run, replies_log, call_log>>
step2Vars == <<s2_pc, s2_calls, s2_futures, s2_now, s2_handled, s2_current,
               agent_responses, state_agent_responses, current_step>>
decisionVars == <<dc_pc, weights, in_agent_responses, in_synthesis_output,
                  weighted_record, majority_record>>
stateVars == <<state_group_chat, state_synthesis_output, state_final_decision>>
callerVars == <<step_trace, step_calls, call_trace, step_raised,
                use_weighted_model>>
d25Vars == <<d25_pc, rounds, round_num, d25_idx, d25_history, group_chat_messages,
             d25_calls>>
sessionVars == <<stateVars, callerVars, d25Vars>>
groupChatVars == <<gc_pc, gc_user_message, chat_rounds, gc_messages, round_log,
                   state_conversation_history>>
vars == <<chatVars, roundVars, debateVars, step2Vars, decisionVars, sessionVars,
          groupChatVars>>

(***************************************************************************)
(* Text                                                                    *)
(***************************************************************************)
LowerLetters == <<"a","b","c","d","e","f","g","h","i","j","k","l","m",
                  "n","o","p","q","r","s","t","u","v","w","x","y","z">>
UpperLetters == <<"A","B","C","D","E","F","G","H","I","J","K","L","M",
                  "N","O","P","Q","R","S","T","U","V","W","X","Y","Z">>
Whitespace == {" ", "\t", "\n", "\r"}

Range(s) == {s[i] : i \in DOMAIN s}
IndexIn(c, letters) == CHOOSE i \in DOMAIN letters : letters[i] = c

\* str.upper() and str.lower(), one character at a time
ToUpper == [c \in Range(LowerLetters) |-> UpperLetters[IndexIn(c, LowerLetters)]]
ToLower == [c \in Range(UpperLetters) |-> LowerLetters[IndexIn(c, UpperLetters)]]
UpperChar(c) == IF c \in DOMAIN ToUpper THEN ToUpper[c] ELSE c
LowerChar(c) == IF c \in DOMAIN ToLower THEN ToLower[c] ELSE c
Upper(s) == [i \in DOMAIN s |-> UpperChar(s[i])]
Lower(s) == [i \in DOMAIN s |-> LowerChar(s[i])]

\* str.strip(): leading and trailing whitespace removed
Strip(s) ==
    LET keep == {i \in DOMAIN s : s[i] \notin Whitespace}
    IN  IF keep = {} THEN <<>>
        ELSE LET lo == CHOOSE i \in keep : \A j \in keep : i <= j
                 hi == CHOOSE i \in keep : \A j \in keep : j <= i
             IN  SubSeq(s, lo, hi)

StartsWith(s, p) == Len(s) >= Len(p) /\ SubSeq(s, 1, Len(p)) = p
\* Python's `p in s` for strings
Contains(s, p) == \E i \in 0..(Len(s) - Len(p)) : SubSeq(s, i + 1, i + Len(p)) = p

RECURSIVE Join(_, _)
\* sep.join(lines)
Join(lines, sep) ==
    IF lines = <<>> THEN <<>>
    ELSE IF Len(lines) = 1 THEN lines[1]
    ELSE lines[1] \o sep \o Join(Tail(lines), sep)

Max(a, b) == IF a >= b THEN a ELSE b

(***************************************************************************)
(* The personas                                                            *)
(***************************************************************************)
\* the `agents` dict of run_one_round and run_tagged_debate, in insertion order
AliasOrder == <<"Elon", "Sam", "Sheryl", "Ray">>
Aliases == Range(AliasOrder)
\* the `futures` dict of step_2_parallel_responses, in insertion order
RoleOrder == <<"Visionary", "Strategist", "Operator", "Risk Analyst">>
Roles == Range(RoleOrder)
agent_name_mapping == [r \in Roles |->
    CASE r = "Visionary" -> "Elon" [] r = "Strategist" -> "Sam"
      [] r = "Operator" -> "Sheryl" [] OTHER -> "Ray"]

NameText == [a \in Aliases \cup {"You"} |->
    CASE a = "Elon" -> <<"E","l","o","n">>
      [] a = "Sam" -> <<"S","a","m">>
      [] a = "Sheryl" -> <<"S","h","e","r","y","l">>
      [] a = "Ray" -> <<"R","a","y">>
      [] OTHER -> <<"Y","o","u">>]

\* f"{agent_name}: {response}"
Entry(name, text) == NameText[name] \o <<":", " ">> \o text

(***************************************************************************)
(* Texts the persona and user stubs produce                                *)
(***************************************************************************)
T_ok == <<"o","k">>
T_no == <<"N","o",".">>
T_SKIP == <<"S","K","I","P">>
T_skip_ws == <<" ","s","k","i","p","\n">>
T_SkipIt == <<"S","k","i","p"," ","i","t">>
T_ISkip == <<"I"," ","s","k","i","p">>
T_hi == <<"h","i">>

\* what a submitted chat_response call does: return `text`, or raise, `lat` time
\* units after it was submitted; or never return
Reply(text, lat) == [kind |-> "reply", text |-> text, lat |-> lat]
Raise(lat) == [kind |-> "raise", text |-> <<>>, lat |-> lat]
Hang == [kind |-> "hang", text |-> <<>>, lat |-> 0]

RoundBehaviours ==
    { Reply(T_ok, 5), Reply(T_ok, 20), Reply(T_no, 40), Reply(T_no, 59),
      Reply(T_SKIP, 10), Reply(T_skip_ws, 15), Reply(T_SkipIt, 30),
      Reply(T_ISkip, 25), Raise(35), Reply(T_ok, 100), Hang }
ChatBehaviours == { Reply(T_ok, 5), Reply(T_SKIP, 10) }

InitialHistories == { <<>>, <<Entry("You", T_hi)>> }

(***************************************************************************)
(* run_one_round                                                           *)
(***************************************************************************)
\* future.result(timeout=60), line 614
TimeoutUnits == 60
\* conversation_history[-10:], lines 498 and 582
ContextWindow == 10

LastN(h, n) == IF Len(h) > n THEN SubSeq(h, Len(h) - n + 1, Len(h)) ELSE h
\* line 582 (and 498): the last 10 entries joined by newlines
BuildContext_NoWindow(h) == Join(h, <<"\n">>)
BuildContext(h) == Join(LastN(h, ContextWindow), <<"\n">>)

T_YouColon == <<"Y","o","u",":">>
\* lines 597-598: the last entry that starts with "You:", else the first entry,
\* else the empty string
LastUserMessage(h) ==
    LET user_messages == SelectSeq(h, LAMBDA msg : StartsWith(msg, T_YouColon))
    IN  IF user_messages # <<>> THEN user_messages[Len(user_messages)]
        ELSE IF h # <<>> THEN h[1] ELSE <<>>

\* line 601, the f-string around {conversation_context}
SkipPromptHead ==
    <<"T","h","e"," ","g","r","o","u","p"," ","i","s"," ","d","i","s","c","u",
      "s","s","i","n","g",":","\n","\n">>
SkipPromptTail ==
    <<"\n","\n","D","o"," ","y","o","u"," ","h","a","v","e"," ","s","o","m",
      "e","t","h","i","n","g"," ","t","o"," ","a","d","d","?"," ","O","n","l",
      "y"," ","r","e","s","p","o","n","d"," ","i","f"," ","y","o","u"," ","h",
      "a","v","e"," ","s","o","m","e","t","h","i","n","g"," ","r","e","l","e",
      "v","a","n","t"," ","t","o"," ","s","a","y","."," ","I","f"," ","y","o",
      "u"," ","d","o","n","'","t"," ","h","a","v","e"," ","a","n","y","t","h",
      "i","n","g"," ","t","o"," ","a","d","d",","," ","r","e","s","p","o","n",
      "d"," ","w","i","t","h"," ","j","u","s","t"," ","'","S","K","I","P","'",
      ".">>
\* lines 594-601: the prompt of one persona's call
RoundPrompt(h, context, first) ==
    IF first THEN LastUserMessage(h)
    ELSE SkipPromptHead \o context \o SkipPromptTail
\* visionary.py:161 (the same test in every persona): chat_response uses its
\* prompt that offers "SKIP" when the message it is given holds the word SKIP
\* in any case, or the question of the turn-taking prompt
T_SomethingToAdd ==
    <<"D","o"," ","y","o","u"," ","h","a","v","e"," ","s","o","m","e","t","h",
      "i","n","g"," ","t","o"," ","a","d","d">>
OffersSkip(user_message) ==
    \/ Contains(Upper(user_message), T_SKIP)
    \/ Contains(user_message, T_SomethingToAdd)
\* lines 603-608: the arguments of executor.submit(agent.chat_response, ...)
SubmitArgs(h, context, first) ==
    [prompt |-> RoundPrompt(h, context, first), context |-> context]

\* line 617: the reply is dropped as a skip
IsSkip_ExactOnly(response) == Upper(Strip(response)) = T_SKIP
IsSkip(response) ==
    \/ Upper(Strip(response)) = T_SKIP
    \/ StartsWith(Upper(Strip(response)), T_SKIP)

\* the time shutdown(wait=True) needs: every submitted call has finished
AllFinishedAt(fs) ==
    LET lats == {fs[a].lat : a \in DOMAIN fs} \cup {0}
    IN  CHOOSE m \in lats : \A l \in lats : l <= m

\* line 612: `for agent_name, future in futures.items()` visits the futures in
\* the order they were inserted
NextToCollect_ByCompletion ==
    LET left == {a \in Aliases : got[a] = "pending"}
        rank(a) == IF futures[a].kind = "hang" THEN 1000 ELSE futures[a].lat
        pos(a) == CHOOSE i \in 1..4 : AliasOrder[i] = a
    IN  CHOOSE a \in left : \A b \in left :
            rank(a) < rank(b) \/ (rank(a) = rank(b) /\ pos(a) <= pos(b))
NextToCollect == AliasOrder[rd_idx]

Quiescent == rd_pc \in {"idle", "returned"} /\ db_pc \in {"idle", "returned"}

\* lines 574-609: the call is entered, the context is built and the four calls
\* are submitted to the pool (max_workers=4: all four start at once)
RunOneRoundStart(pool, maxCalls) ==
    /\ Quiescent
    /\ calls < maxCalls
    /\ \E first \in BOOLEAN, plan \in [Aliases -> pool] :
        /\ is_first_round' = first
        /\ futures' = plan
        /\ submitted' = [a \in Aliases |->
               SubmitArgs(conversation_history,
                          BuildContext(conversation_history), first)]
    /\ calls' = calls + 1
    /\ rd_pc' = "collect"
    /\ db_pc' = "idle"
    /\ conversation_context' = BuildContext(conversation_history)
    /\ rd_idx' = 1
    /\ got' = [a \in Aliases |-> "pending"]
    /\ now' = 0
    /\ new_messages' = <<>>
    /\ h0' = conversation_history
    /\ UNCHANGED <<conversation_history, tagged_agents, participating_agents,
                   debate_history, debate_messages, exchange_messages, exchange,
                   db_idx, exchanges_run, replies_log, call_log>>
    /\ UNCHANGED <<step2Vars, decisionVars, groupChatVars, sessionVars>>

RoundAdvance ==
    /\ rd_idx' = rd_idx + 1
    /\ rd_pc' = IF rd_idx = Len(AliasOrder) THEN "shutdown" ELSE "collect"
    /\ UNCHANGED <<is_first_round, conversation_context, futures, submitted, h0,
                   calls>>
    /\ UNCHANGED <<debateVars, step2Vars, decisionVars, groupChatVars, sessionVars>>

\* lines 612-636, one iteration: the call returned a text within the timeout
\* and the text is not a skip
CollectAppend ==
    /\ rd_pc = "collect"
    /\ LET a == NextToCollect
           f == futures[a]
       IN  /\ f.kind = "reply"
           /\ f.lat <= now + TimeoutUnits
           /\ ~IsSkip(f.text)
           /\ now' = Max(now, f.lat)
           /\ new_messages' = Append(new_messages,
                  [agent |-> a, message |-> f.text, timestamp |-> Max(now, f.lat)])
           /\ conversation_history' = Append(conversation_history, Entry(a, f.text))
           /\ got' = [got EXCEPT ![a] = "appended"]
    /\ RoundAdvance

\* lines 617-620: the text is a skip, `continue`
CollectSkip ==
    /\ rd_pc = "collect"
    /\ LET a == NextToCollect
           f == futures[a]
       IN  /\ f.kind = "reply"
           /\ f.lat <= now + TimeoutUnits
           /\ IsSkip(f.text)
           /\ now' = Max(now, f.lat)
           /\ got' = [got EXCEPT ![a] = "skipped"]
    /\ UNCHANGED <<new_messages, conversation_history>>
    /\ RoundAdvance

CollectException_Break ==
    /\ rd_pc = "collect"
    /\ LET a == NextToCollect
           f == futures[a]
       IN  /\ f.kind = "raise"
           /\ f.lat <= now + TimeoutUnits
           /\ now' = Max(now, f.lat)
           /\ got' = [got EXCEPT ![a] = "raised"]
    /\ rd_pc' = "shutdown"
    /\ UNCHANGED <<new_messages, conversation_history, rd_idx>>
    /\ UNCHANGED <<is_first_round, conversation_context, futures, submitted, h0,
                   calls>>
    /\ UNCHANGED <<debateVars, step2Vars, decisionVars, groupChatVars, sessionVars>>
\* lines 633-636: the call raised; the error text is only printed
CollectException ==
    /\ rd_pc = "collect"
    /\ LET a == NextToCollect
           f == futures[a]
       IN  /\ f.kind = "raise"
           /\ f.lat <= now + TimeoutUnits
           /\ now' = Max(now, f.lat)
           /\ got' = [got EXCEPT ![a] = "raised"]
    /\ UNCHANGED <<new_messages, conversation_history>>
    /\ RoundAdvance

\* lines 614, 633-636: the call did not finish within 60 units of the moment
\* the loop began to wait for it; TimeoutError is caught like any exception
CollectTimeout ==
    /\ rd_pc = "collect"
    /\ LET a == NextToCollect
           f == futures[a]
       IN  /\ (f.kind = "hang" \/ f.lat > now + TimeoutUnits)
           /\ now' = now + TimeoutUnits
           /\ got' = [got EXCEPT ![a] = "timeout"]
    /\ UNCHANGED <<new_messages, conversation_history>>
    /\ RoundAdvance

\* the time at which the `with` block of line 591 can be left: its exit calls
\* executor.shutdown(wait=True), which joins every worker thread
ReturnTime == Max(now, AllFinishedAt(futures))
CanLeaveWith == \A a \in Aliases : futures[a].kind # "hang"

\* lines 591 (exit of the with block) and 638
RoundReturn ==
    /\ rd_pc = "shutdown"
    /\ CanLeaveWith
    /\ now' = ReturnTime
    /\ rd_pc' = "returned"
    /\ UNCHANGED <<is_first_round, conversation_context, futures, submitted,
                   rd_idx, got, new_messages, h0, chatVars>>
    /\ UNCHANGED <<debateVars, step2Vars, decisionVars, groupChatVars, sessionVars>>

(***************************************************************************)
(* run_tagged_debate                                                       *)
(***************************************************************************)
\* line 492
max_exchanges == 3

\* line 550
closing_signals ==
    { <<"a","g","r","e","e">>,
      <<"s","o","u","n","d","s"," ","g","o","o","d">>,
      <<"m","a","k","e","s"," ","s","e","n","s","e">>,
      <<"r","e","s","o","l","v","e","d">>,
      <<"i"," ","t","h","i","n","k"," ","w","e","'","r","e"," ","d","o","n","e">>,
      <<"t","h","a","t"," ","w","o","r","k","s">> }

T_IAGREE == <<"I"," ","A","G","R","E","E">>
T_disagree == <<"d","i","s","a","g","r","e","e">>
T_SoundsGood2 == <<"S","o","u","n","d","s"," "," ","g","o","o","d">>

DebateBehaviours ==
    { Reply(T_no, 5), Reply(T_IAGREE, 10), Reply(T_disagree, 5),
      Reply(T_SoundsGood2, 5), Raise(5) }
ChatDebateBehaviours == { Reply(T_no, 5), Reply(T_IAGREE, 10) }
\* chat_response calls of personas that abstain
SkipDebateBehaviours == { Reply(T_no, 5), Reply(T_SKIP, 5), Reply(T_SkipIt, 5) }

TaggedInputs ==
    { <<>>, <<"Bob">>, <<"Ray">>, <<"Elon", "Ray">>, <<"Ray", "Elon">>,
      <<"Sam", "Sam">>, <<"Elon", "Bob", "Sheryl">>, <<"Sam", "Ray", "Elon">> }
ChatTaggedInputs == { <<"Bob">>, <<"Ray", "Elon">> }
UserMessages == { T_hi }

RECURSIVE Participating(_)
RECURSIVE Participating_DefaultsToElon(_)
Participating_DefaultsToElon(tagged) ==
    IF tagged = <<>> THEN <<>>
    ELSE LET init == Participating_DefaultsToElon(SubSeq(tagged, 1, Len(tagged) - 1))
             x == IF tagged[Len(tagged)] \in Aliases THEN tagged[Len(tagged)]
                  ELSE "Elon"
         IN  IF x \notin Range(init) THEN Append(init, x) ELSE init
Participating_AgentsOrder(tagged) ==
    SelectSeq(AliasOrder, LAMBDA a : a \in Range(tagged))
\* line 477: {name: agents[name] for name in tagged_agents if name in agents};
\* the keys in insertion order, a repeated name keeping its first position
Participating(tagged) ==
    IF tagged = <<>> THEN <<>>
    ELSE LET init == Participating(SubSeq(tagged, 1, Len(tagged) - 1))
             x == tagged[Len(tagged)]
         IN  IF x \in Aliases /\ x \notin Range(init) THEN Append(init, x) ELSE init

\* lines 548-551: some reply of the exchange contains a closing signal
ClosingDetected_CaseSensitive(msgs) ==
    \E i \in DOMAIN msgs, s \in closing_signals : Contains(msgs[i].message, s)
ClosingDetected(msgs) ==
    \E i \in DOMAIN msgs, s \in closing_signals :
        Contains(Lower(msgs[i].message), s)

RECURSIVE WriteBack(_, _)
WriteBack_Replace(history, msgs) ==
    [i \in DOMAIN msgs |-> Entry(msgs[i].agent, msgs[i].message)]
\* lines 557-558: the debate's messages are appended to the caller's list
WriteBack(history, msgs) ==
    IF msgs = <<>> THEN history
    ELSE WriteBack(Append(history, Entry(msgs[1].agent, msgs[1].message)), Tail(msgs))

CallStart_AtExchangeStart ==
    IF \E i \in DOMAIN call_log : call_log[i].exchange = exchanges_run
    THEN call_log[CHOOSE i \in DOMAIN call_log :
                     /\ call_log[i].exchange = exchanges_run
                     /\ \A j \in 1..(i - 1) : call_log[j].exchange # exchanges_run].start
    ELSE now
\* lines 501-511: chat_response is called in the loop's own thread, when the
\* loop reaches the persona
CallStart == now
\* one call of chat_response, from the moment it is made until it ends
CallRecord(agent, f, start) ==
    [agent |-> agent, exchange |-> exchanges_run, kind |-> f.kind,
     text |-> f.text, start |-> start, end |-> start + f.lat]

\* lines 469-484 and the head of the first exchange (497-498)
RunTaggedDebateStart(inputs, maxCalls) ==
    /\ Quiescent
    /\ calls < maxCalls
    /\ calls' = calls + 1
    /\ rd_pc' = "idle"
    /\ \E tagged \in inputs, user_message \in UserMessages :
        /\ tagged_agents' = tagged
        /\ participating_agents' = Participating(tagged)
        /\ h0' = conversation_history
        /\ debate_messages' = <<>>
        /\ exchange_messages' = <<>>
        /\ exchange' = 0
        /\ db_idx' = 1
        /\ replies_log' = <<>>
        /\ call_log' = <<>>
        /\ now' = 0
        /\ IF Participating(tagged) = <<>>
           THEN \* lines 479-480: return []
                /\ db_pc' = "returned"
                /\ exchanges_run' = 0
                /\ UNCHANGED <<debate_history, conversation_context>>
           ELSE /\ db_pc' = "respond"
                /\ exchanges_run' = 1
                /\ debate_history' =
                       Append(conversation_history, Entry("You", user_message))
                /\ conversation_context' =
                       BuildContext(Append(conversation_history,
                                           Entry("You", user_message)))
    /\ UNCHANGED <<conversation_history, is_first_round, futures, submitted,
                   rd_idx, got, new_messages>>
    /\ UNCHANGED <<step2Vars, decisionVars, groupChatVars, sessionVars>>

DebateAdvance ==
    /\ db_idx' = db_idx + 1
    /\ db_pc' = IF db_idx = Len(participating_agents) THEN "check" ELSE "respond"
    /\ UNCHANGED <<tagged_agents, participating_agents, debate_messages, exchange,
                   exchanges_run>>
    /\ UNCHANGED <<chatVars, rd_pc, is_first_round, conversation_context, futures,
                   submitted, rd_idx, got, new_messages, h0>>
    /\ UNCHANGED <<step2Vars, decisionVars, groupChatVars, sessionVars>>

\* lines 501-539, one iteration: chat_response is called and returns
DebateReply(pool) ==
    /\ db_pc = "respond"
    /\ \E f \in pool :
        /\ f.kind = "reply"
        /\ now' = CallStart + f.lat
        /\ call_log' = Append(call_log,
               CallRecord(participating_agents[db_idx], f, CallStart))
        /\ debate_history' =
               Append(debate_history, Entry(participating_agents[db_idx], f.text))
        /\ exchange_messages' = Append(exchange_messages,
               [agent |-> participating_agents[db_idx], message |-> f.text,
                timestamp |-> CallStart + f.lat])
        /\ replies_log' =
               IF Len(replies_log) < exchanges_run
               THEN Append(replies_log, <<f.text>>)
               ELSE [replies_log EXCEPT ![exchanges_run] = Append(@, f.text)]
    /\ DebateAdvance

\* lines 540-543: chat_response raised; the error text is only printed
DebateRaise(pool) ==
    /\ db_pc = "respond"
    /\ \E f \in pool :
        /\ f.kind = "raise"
        /\ now' = CallStart + f.lat
        /\ call_log' = Append(call_log,
               CallRecord(participating_agents[db_idx], f, CallStart))
    /\ replies_log' = IF Len(replies_log) < exchanges_run
                      THEN Append(replies_log, <<>>) ELSE replies_log
    /\ UNCHANGED <<debate_history, exchange_messages>>
    /\ DebateAdvance

\* lines 545-554 and the head of the next exchange (493-498)
DebateCheck ==
    /\ db_pc = "check"
    /\ debate_messages' = debate_messages \o exchange_messages
    /\ IF \/ (exchange_messages # <<>> /\ ClosingDetected(exchange_messages))
          \/ exchange + 1 = max_exchanges
       THEN /\ db_pc' = "finish"
            /\ UNCHANGED <<exchange, exchange_messages, conversation_context,
                           db_idx, exchanges_run>>
       ELSE /\ db_pc' = "respond"
            /\ exchange' = exchange + 1
            /\ exchanges_run' = exchanges_run + 1
            /\ exchange_messages' = <<>>
            /\ conversation_context' = BuildContext(debate_history)
            /\ db_idx' = 1
    /\ UNCHANGED <<tagged_agents, participating_agents, debate_history,
                   replies_log, call_log, now>>
    /\ UNCHANGED <<chatVars, rd_pc, is_first_round, futures, submitted, rd_idx,
                   got, new_messages, h0>>
    /\ UNCHANGED <<step2Vars, decisionVars, groupChatVars, sessionVars>>

\* lines 556-560
DebateFinish ==
    /\ db_pc = "finish"
    /\ conversation_history' = WriteBack(conversation_history, debate_messages)
    /\ db_pc' = "returned"
    /\ UNCHANGED <<calls, tagged_agents, participating_agents, debate_history,
                   debate_messages, exchange_messages, exchange, db_idx,
                   exchanges_run, replies_log, call_log>>
    /\ UNCHANGED <<roundVars, step2Vars, decisionVars, groupChatVars, sessionVars>>

(***************************************************************************)
(* Python dicts: functions whose domain is the set of keys                 *)
(***************************************************************************)
EmptyDict == <<>>
Put(d, k, v) == (k :> v) @@ [x \in (DOMAIN d) \ {k} |-> d[x]]
\* d.get(k, default)
Get(d, k, default) == IF k \in DOMAIN d THEN d[k] ELSE default

(***************************************************************************)
(* step_1_broadcast and step_2_parallel_responses                          *)
(***************************************************************************)
T_boom == <<"b","o","o","m">>
T_ErrorPrefix == <<"E","r","r","o","r",":"," ">>

\* what an analyze call does when it finishes
Return(text) == [kind |-> "return", text |-> text]
RaiseMsg(msg) == [kind |-> "raise", text |-> msg]
AnalyzeOutcomes == { Return(T_ok), Return(T_no), RaiseMsg(T_boom) }
\* the times, since submission, at which an analyze call may finish
AnalyzeTimesFast == { 5 }
AnalyzeTimes == { 5, 100 }
\* a submitted call that has not finished
Running == [kind |-> "running", text |-> <<>>, at |-> 0]
Finished(outcome, t) == [kind |-> outcome.kind, text |-> outcome.text, at |-> t]

\* f"Error: {str(e)}"
ErrorText(msg) == T_ErrorPrefix \o msg

\* lines 164-166 and 181: the value stored under the display alias
StoreAlias(d, role, outcome) ==
    Put(d, agent_name_mapping[role],
        IF outcome.kind = "return" THEN outcome.text ELSE ErrorText(outcome.text))

StoreRole_OnlyOnSuccess(d, role, outcome) ==
    IF outcome.kind = "return" THEN Put(d, role, outcome.text) ELSE d
StoreRole_BareMessage(d, role, outcome) == Put(d, role, outcome.text)
\* lines 168 and 182: the value stored under the role key
StoreRole(d, role, outcome) ==
    Put(d, role,
        IF outcome.kind = "return" THEN outcome.text ELSE ErrorText(outcome.text))

\* a caller re-invokes the step at most MaxStepCalls times on one state
MaxStepCalls == 2

\* Optional values: None, or a key that is absent, is the empty sequence
Nothing == <<>>
Some(v) == <<v>>

\* no step-level call is in progress on the state
NoStepRunning == s2_pc \in {"idle", "returned"} /\ d25_pc = "idle"

\* lines 78-88
Step1Broadcast ==
    /\ s2_pc = "none"
    /\ s2_pc' = "idle"
    /\ state_agent_responses' = EmptyDict
    /\ state_synthesis_output' = Nothing
    /\ state_final_decision' = Nothing
    /\ state_group_chat' = Nothing
    /\ current_step' = 10
    /\ step_trace' = <<10>>
    /\ UNCHANGED <<s2_futures, s2_now, s2_handled, s2_current, agent_responses,
                   s2_calls>>
    /\ UNCHANGED <<step_calls, call_trace, step_raised, use_weighted_model,
                   d25Vars>>
    /\ UNCHANGED <<chatVars, roundVars, debateVars, decisionVars, groupChatVars>>

\* lines 102-148: the four analyze calls are submitted
Step2Start(maxCalls) ==
    /\ NoStepRunning
    /\ s2_calls < maxCalls
    /\ s2_calls' = s2_calls + 1
    /\ step_calls' = step_calls + 1
    /\ call_trace' = Append(call_trace, "step_2_parallel_responses")
    /\ step_raised' = FALSE
    /\ s2_pc' = "collect"
    /\ s2_futures' = [r \in Roles |-> Running]
    /\ s2_now' = 0
    /\ s2_handled' = {}
    /\ agent_responses' = EmptyDict
    /\ UNCHANGED <<s2_current, state_agent_responses, current_step>>
    /\ UNCHANGED <<stateVars, d25Vars, step_trace, use_weighted_model>>
    /\ UNCHANGED <<chatVars, roundVars, debateVars, decisionVars, groupChatVars>>

\* a worker thread: the analyze call of `role` returns or raises, at one of
\* `times`; nothing in the step bounds how long the call may take
AnalyzeFinishes(role, outcomes, times) ==
    /\ s2_pc \in {"collect", "store_role"}
    /\ s2_futures[role].kind = "running"
    /\ \E o \in outcomes, t \in times :
          /\ t >= s2_now
          /\ s2_futures' = [s2_futures EXCEPT ![role] = Finished(o, t)]
          /\ s2_now' = t
    /\ UNCHANGED <<s2_pc, s2_calls, s2_handled, s2_current, agent_responses,
                   state_agent_responses, current_step>>
    /\ UNCHANGED <<chatVars, roundVars, debateVars, decisionVars, groupChatVars, sessionVars>>

\* lines 152-166 and 176-181: as_completed yields a finished future; its result
\* or its error text is stored under the display alias
Step2StoreAlias(role) ==
    /\ s2_pc = "collect"
    /\ role \notin s2_handled
    /\ s2_futures[role].kind # "running"
    /\ s2_current' = role
    /\ agent_responses' = StoreAlias(agent_responses, role, s2_futures[role])
    /\ s2_pc' = "store_role"
    /\ UNCHANGED <<s2_calls, s2_futures, s2_now, s2_handled, state_agent_responses,
                   current_step>>
    /\ UNCHANGED <<chatVars, roundVars, debateVars, decisionVars, groupChatVars, sessionVars>>

\* lines 168-169 and 182-183: the same value is stored under the role key
Step2StoreRole ==
    /\ s2_pc = "store_role"
    /\ agent_responses' = StoreRole(agent_responses, s2_current, s2_futures[s2_current])
    /\ s2_handled' = s2_handled \cup {s2_current}
    /\ s2_pc' = IF s2_handled \cup {s2_current} = Roles THEN "assign" ELSE "collect"
    /\ UNCHANGED <<s2_calls, s2_futures, s2_now, s2_current, state_agent_responses,
                   current_step>>
    /\ UNCHANGED <<chatVars, roundVars, debateVars, decisionVars, groupChatVars, sessionVars>>

\* lines 185-192
Step2Assign ==
    /\ s2_pc = "assign"
    /\ state_agent_responses' = agent_responses
    /\ current_step' = 20
    /\ step_trace' = Append(step_trace, 20)
    /\ s2_pc' = "returned"
    /\ UNCHANGED <<s2_calls, s2_futures, s2_now, s2_handled, s2_current, agent_responses>>
    /\ UNCHANGED <<stateVars, d25Vars, step_calls, call_trace, step_raised,
                   use_weighted_model>>
    /\ UNCHANGED <<chatVars, roundVars, debateVars, decisionVars, groupChatVars>>

(***************************************************************************)
(* _weighted_decision and _majority_voting                                 *)
(***************************************************************************)
\* lines 408 and 446: response[:200]
PreviewLen == 200

\* Config.AGENT_WEIGHTS, in hundredths
AGENT_WEIGHTS ==
    ("Visionary" :> 35) @@ ("Strategist" :> 30) @@ ("Operator" :> 20)
        @@ ("Risk Analyst" :> 15)
\* {**a, **b}
Merge(a, b) == [k \in (DOMAIN a) \cup (DOMAIN b) |->
                   IF k \in DOMAIN b THEN b[k] ELSE a[k]]

\* lines 61-65
InitWeights(custom_weights) ==
    IF custom_weights # EmptyDict THEN Merge(AGENT_WEIGHTS, custom_weights)
    ELSE AGENT_WEIGHTS

\* role_to_name.get(k, k), lines 403 and 413
NormalName(k) == IF k \in Roles THEN agent_name_mapping[k] ELSE k

\* response[:200] + "..." if len(response) > 200 else response
Preview(response) ==
    IF Len(response) > PreviewLen
    THEN SubSeq(response, 1, PreviewLen) \o <<".", ".", ".">>
    ELSE response

\* agent_responses.get(role_name) or agent_responses.get(normal_name, "")
ResponseOf(ar, role_name) ==
    IF role_name \in DOMAIN ar /\ ar[role_name] # <<>> THEN ar[role_name]
    ELSE Get(ar, NormalName(role_name), <<>>)

\* the key of self.weights whose entry is the one left under display name n:
\* the last such key in the dict's order.  The four role keys come first
\* (Config.AGENT_WEIGHTS); a key that is no role is its own display name and
\* was added after them by the merge of line 63
LastKeyFor(w, n) ==
    IF n \in DOMAIN w THEN n
    ELSE CHOOSE k \in DOMAIN w : NormalName(k) = n

\* lines 389-422
_weighted_decision(ar, so, w) ==
    [ method |-> "weighted_model",
      weights_used |-> [n \in {NormalName(k) : k \in DOMAIN w} |->
          LET k == LastKeyFor(w, n) IN w[k]],
      synthesis_summary |-> Get(so, "summary", <<>>),
      recommended_options |-> Get(so, "final_options", <<>>),
      weight_breakdown |-> [n \in {NormalName(k) : k \in DOMAIN w} |->
          LET k == LastKeyFor(w, n)
          IN  [weight |-> w[k], response_preview |-> Preview(ResponseOf(ar, k))]],
      key_agreements |-> Get(so, "agreements", <<>>),
      key_conflicts |-> Get(so, "conflicts", <<>>),
      identified_blind_spots |-> Get(so, "blind_spots", <<>>) ]

_majority_voting_OptionsFromAgreements(ar, so) ==
    [ method |-> "majority_voting",
      synthesis_summary |-> Get(so, "summary", <<>>),
      recommended_options |-> Get(so, "agreements", <<>>),
      agent_responses |-> [k \in DOMAIN ar |-> Preview(ar[k])],
      key_agreements |-> Get(so, "agreements", <<>>),
      key_conflicts |-> Get(so, "conflicts", <<>>),
      identified_blind_spots |-> Get(so, "blind_spots", <<>>) ]
\* lines 439-454
_majority_voting(ar, so) ==
    [ method |-> "majority_voting",
      synthesis_summary |-> Get(so, "summary", <<>>),
      recommended_options |-> Get(so, "final_options", <<>>),
      agent_responses |-> [k \in DOMAIN ar |-> Preview(ar[k])],
      key_agreements |-> Get(so, "agreements", <<>>),
      key_conflicts |-> Get(so, "conflicts", <<>>),
      identified_blind_spots |-> Get(so, "blind_spots", <<>>) ]

T_LongText == [i \in 1..(PreviewLen + 1) |-> "x"]
T_summary == <<"s","u","m","m","a","r","y">>
T_unavailable == <<"S","y","n","t","h","e","s","i","s"," ","u","n","a","v","a","i","l","a","b","l","e">>
T_optA == <<"s","h","i","p">>
T_optB == <<"w","a","i","t">>
T_point == <<"c","o","s","t">>

\* the 8-key map step_2_parallel_responses leaves, every persona given `text`
ResponsesAll(text) == [k \in Roles \cup Aliases |-> text]
AgentResponsesInputs ==
    { ResponsesAll(T_ok),
      [ResponsesAll(T_ok) EXCEPT !["Visionary"] = T_LongText, !["Elon"] = T_LongText],
      [ResponsesAll(T_no) EXCEPT !["Ray"] = ErrorText(T_boom),
                                 !["Risk Analyst"] = ErrorText(T_boom)] }
\* records of the shape SynthesisAgent.synthesize returns
SynthesisOutputs ==
    [ summary : {T_summary, T_unavailable},
      agreements : {<<>>, <<T_point>>},
      conflicts : {<<>>, <<T_point, T_optA>>},
      blind_spots : {<<>>, <<T_optB>>},
      final_options : {<<>>, <<T_optA>>, <<T_optA, T_optB>>, <<T_optB, T_optA>>} ]
CustomWeights == { EmptyDict, ("Visionary" :> 50), ("Bob" :> 10), ("Elon" :> 40) }

\* a call of _weighted_decision on the inputs
CallWeighted ==
    /\ "weighted" \notin dc_pc
    /\ dc_pc' = dc_pc \cup {"weighted"}
    /\ weighted_record' =
           _weighted_decision(in_agent_responses, in_synthesis_output, weights)
    /\ UNCHANGED <<weights, in_agent_responses, in_synthesis_output, majority_record>>
    /\ UNCHANGED <<chatVars, roundVars, debateVars, step2Vars, sessionVars, groupChatVars>>

\* a call of _majority_voting on the same inputs
CallMajority ==
    /\ "majority" \notin dc_pc
    /\ dc_pc' = dc_pc \cup {"majority"}
    /\ majority_record' = _majority_voting(in_agent_responses, in_synthesis_output)
    /\ UNCHANGED <<weights, in_agent_responses, in_synthesis_output, weighted_record>>
    /\ UNCHANGED <<chatVars, roundVars, debateVars, step2Vars, sessionVars, groupChatVars>>

(***************************************************************************)
(* step_2_5_debate, step_3_synthesis, step_4_final_decision, run_council   *)
(***************************************************************************)
\* the variables of step 2 that the later steps do not write
step2Rest == <<s2_pc, s2_calls, s2_futures, s2_now, s2_handled, s2_current,
               agent_responses, state_agent_responses>>

\* what a chat_response call of step 2.5 does
ChatOutcomes == { Return(T_ok), RaiseMsg(T_boom) }
ChatOutcomesOk == { Return(T_ok) }

\* lines 229-237: the initial responses stored under role names, as
\* "alias: response" entries in the order of agent_names
InitialHistory(ar) ==
    LET present == SelectSeq(RoleOrder, LAMBDA r : r \in DOMAIN ar)
    IN  [i \in DOMAIN present |->
            Entry(agent_name_mapping[present[i]], ar[present[i]])]

\* line 261, the f-string after {conversation_context}; before it stands the
\* same text as in run_one_round
DebatePromptTail ==
    <<"\n","\n","W","h","a","t"," ","d","o"," ","y","o","u"," ","t","h","i",
      "n","k","?"," ","R","e","s","p","o","n","d"," ","n","a","t","u","r","a",
      "l","l","y"," ","t","o"," ","t","h","e"," ","c","o","n","v","e","r","s",
      "a","t","i","o","n",".">>
DebatePrompt(context) == SkipPromptHead \o context \o DebatePromptTail

Step25Context_RoundStart ==
    BuildContext(SubSeq(d25_history, 1, Len(d25_history) - (d25_idx - 1)))
\* lines 251-255: recent_messages and conversation_context, computed inside the
\* loop over the personas from the history as it stands
Step25Context == BuildContext(d25_history)

\* lines 205-240: the step is entered
Step25Start(roundChoices, maxCalls) ==
    /\ NoStepRunning
    /\ s2_pc # "none"
    /\ step_calls < maxCalls
    /\ step_calls' = step_calls + 1
    /\ call_trace' = Append(call_trace, "step_2_5_debate")
    /\ step_raised' = FALSE
    /\ \E r \in roundChoices :
        /\ rounds' = r
        /\ d25_pc' = IF r = 0 THEN "store" ELSE "respond"
    /\ round_num' = 0
    /\ d25_idx' = 1
    /\ d25_history' = InitialHistory(state_agent_responses)
    /\ group_chat_messages' = <<>>
    /\ d25_calls' = <<>>
    /\ UNCHANGED <<stateVars, step_trace, use_weighted_model>>
    /\ UNCHANGED <<chatVars, roundVars, debateVars, step2Vars, decisionVars, groupChatVars>>

Step25Advance ==
    /\ d25_idx' = IF d25_idx = Len(AliasOrder) THEN 1 ELSE d25_idx + 1
    /\ round_num' = IF d25_idx = Len(AliasOrder) THEN round_num + 1 ELSE round_num
    /\ d25_pc' = IF d25_idx = Len(AliasOrder) /\ round_num + 1 = rounds
                 THEN "store" ELSE "respond"
    /\ UNCHANGED <<rounds, stateVars, callerVars>>
    /\ UNCHANGED <<chatVars, roundVars, debateVars, step2Vars, decisionVars, groupChatVars>>

\* lines 246-277, one persona: the context is rebuilt from the step's history
\* as it now stands, chat_response is called and returns.  The timestamp of the
\* message (time.time(), read by nothing) is left out.
Step25Reply(pool) ==
    /\ d25_pc = "respond"
    /\ LET a == AliasOrder[d25_idx]
           context == Step25Context
       IN  \E o \in pool :
                /\ o.kind = "return"
                /\ d25_history' = Append(d25_history, Entry(a, o.text))
                /\ group_chat_messages' = Append(group_chat_messages,
                       [agent |-> a, message |-> o.text])
                /\ d25_calls' = Append(d25_calls,
                       [agent |-> a, round |-> round_num, outcome |-> o,
                        prompt |-> DebatePrompt(context), context |-> context])
    /\ Step25Advance

Step25Raise_Swallow(pool) ==
    /\ d25_pc = "respond"
    /\ LET a == AliasOrder[d25_idx]
           context == Step25Context
       IN  \E o \in pool :
                /\ o.kind = "raise"
                /\ UNCHANGED <<d25_history, group_chat_messages>>
                /\ d25_calls' = Append(d25_calls,
                       [agent |-> a, round |-> round_num, outcome |-> o,
                        prompt |-> DebatePrompt(context), context |-> context])
    /\ Step25Advance
\* lines 281-290: chat_response raised; the error text takes the reply's place
Step25Raise(pool) ==
    /\ d25_pc = "respond"
    /\ LET a == AliasOrder[d25_idx]
           context == Step25Context
       IN  \E o \in pool :
                /\ o.kind = "raise"
                /\ d25_history' = Append(d25_history, Entry(a, ErrorText(o.text)))
                /\ group_chat_messages' = Append(group_chat_messages,
                       [agent |-> a, message |-> ErrorText(o.text)])
                /\ d25_calls' = Append(d25_calls,
                       [agent |-> a, round |-> round_num, outcome |-> o,
                        prompt |-> DebatePrompt(context), context |-> context])
    /\ Step25Advance

\* lines 292-302
Step25Store ==
    /\ d25_pc = "store"
    /\ state_group_chat' =
           Some((IF state_group_chat = Nothing THEN <<>> ELSE state_group_chat[1])
                    \o group_chat_messages)
    /\ current_step' = 25
    /\ step_trace' = Append(step_trace, 25)
    /\ d25_pc' = "idle"
    /\ UNCHANGED <<state_synthesis_output, state_final_decision, step_calls,
                   call_trace, step_raised, use_weighted_model>>
    /\ UNCHANGED <<rounds, round_num, d25_idx, d25_history, group_chat_messages,
                   d25_calls>>
    /\ UNCHANGED <<chatVars, roundVars, debateVars, step2Rest, decisionVars, groupChatVars>>

\* what self.agent.invoke does in SynthesisAgent.synthesize (synthesis.py:90)
InvokeResult(kind, so, content) == [kind |-> kind, so |-> so, content |-> content]
EmptyLists(summary) ==
    [summary |-> summary, agreements |-> <<>>, conflicts |-> <<>>,
     blind_spots |-> <<>>, final_options |-> <<>>]
StructuredResponse ==
    [summary |-> T_summary, agreements |-> <<T_point>>, conflicts |-> <<>>,
     blind_spots |-> <<T_optB>>, final_options |-> <<T_optA, T_optB>>]
InvokeResults ==
    { InvokeResult("structured", StructuredResponse, <<>>),
      InvokeResult("messages", EmptyDict, T_summary),
      InvokeResult("empty", EmptyDict, <<>>),
      InvokeResult("raise", EmptyDict, <<>>) }
\* synthesis.py:94-118, for an invoke that returned
synthesize(result) ==
    CASE result.kind = "structured" -> result.so
      [] result.kind = "messages" -> EmptyLists(result.content)
      [] OTHER -> EmptyLists(T_unavailable)

Step3Synthesis_StepFirst(results, maxCalls) ==
    /\ NoStepRunning
    /\ s2_pc # "none"
    /\ step_calls < maxCalls
    /\ step_calls' = step_calls + 1
    /\ call_trace' = Append(call_trace, "step_3_synthesis")
    /\ current_step' = 30
    /\ step_trace' = Append(step_trace, 30)
    /\ \E result \in results :
        IF result.kind = "raise"
        THEN /\ step_raised' = TRUE
             /\ UNCHANGED state_synthesis_output
        ELSE /\ step_raised' = FALSE
             /\ state_synthesis_output' = Some(synthesize(result))
    /\ UNCHANGED <<state_group_chat, state_final_decision, use_weighted_model,
                   d25Vars>>
    /\ UNCHANGED <<chatVars, roundVars, debateVars, step2Rest, decisionVars, groupChatVars>>
\* lines 314-339: the synthesis call is not guarded, an exception of invoke
\* leaves the step before the state is written
Step3Synthesis(results, maxCalls) ==
    /\ NoStepRunning
    /\ s2_pc # "none"
    /\ step_calls < maxCalls
    /\ step_calls' = step_calls + 1
    /\ call_trace' = Append(call_trace, "step_3_synthesis")
    /\ \E result \in results :
        IF result.kind = "raise"
        THEN /\ step_raised' = TRUE
             /\ UNCHANGED <<state_synthesis_output, current_step, step_trace>>
        ELSE /\ step_raised' = FALSE
             /\ state_synthesis_output' = Some(synthesize(result))
             /\ current_step' = 30
             /\ step_trace' = Append(step_trace, 30)
    /\ UNCHANGED <<state_group_chat, state_final_decision, use_weighted_model,
                   d25Vars>>
    /\ UNCHANGED <<chatVars, roundVars, debateVars, step2Rest, decisionVars, groupChatVars>>

Step4FinalDecision_NoneAsEmpty(maxCalls) ==
    /\ NoStepRunning
    /\ s2_pc # "none"
    /\ step_calls < maxCalls
    /\ step_calls' = step_calls + 1
    /\ call_trace' = Append(call_trace, "step_4_final_decision")
    /\ step_raised' = FALSE
    /\ LET so == IF state_synthesis_output = Nothing THEN EmptyDict
                 ELSE state_synthesis_output[1]
       IN  state_final_decision' = Some(
               IF use_weighted_model
               THEN _weighted_decision(state_agent_responses, so, weights)
               ELSE _majority_voting(state_agent_responses, so))
    /\ current_step' = 40
    /\ step_trace' = Append(step_trace, 40)
    /\ UNCHANGED <<state_group_chat, state_synthesis_output, use_weighted_model,
                   d25Vars>>
    /\ UNCHANGED <<chatVars, roundVars, debateVars, step2Rest, decisionVars, groupChatVars>>
\* lines 351-372; with synthesis_output None the strategy's first statement,
\* synthesis_output.get(...) (lines 390, 439), raises AttributeError
Step4FinalDecision(maxCalls) ==
    /\ NoStepRunning
    /\ s2_pc # "none"
    /\ step_calls < maxCalls
    /\ step_calls' = step_calls + 1
    /\ call_trace' = Append(call_trace, "step_4_final_decision")
    /\ IF state_synthesis_output = Nothing
       THEN /\ step_raised' = TRUE
            /\ UNCHANGED <<state_final_decision, current_step, step_trace>>
       ELSE /\ step_raised' = FALSE
            /\ state_final_decision' = Some(
                   IF use_weighted_model
                   THEN _weighted_decision(state_agent_responses,
                                           state_synthesis_output[1], weights)
                   ELSE _majority_voting(state_agent_responses,
                                         state_synthesis_output[1]))
            /\ current_step' = 40
            /\ step_trace' = Append(step_trace, 40)
    /\ UNCHANGED <<state_group_chat, state_synthesis_output, use_weighted_model,
                   d25Vars>>
    /\ UNCHANGED <<chatVars, roundVars, debateVars, step2Rest, decisionVars, groupChatVars>>

\* lines 718-733: the values run_council's steps give current_step, in order
CouncilSteps == <<10, 20, 25, 30, 40>>
\* run_council has completed its first k steps and none has raised
CouncilAt(k) == ~step_raised /\ step_trace = SubSeq(CouncilSteps, 1, k)

\* line 723
RunCouncilStep2 == CouncilAt(1) /\ Step2Start(1)
\* line 726: rounds=2
RunCouncilStep25 == CouncilAt(2) /\ Step25Start({2}, Len(CouncilSteps))
\* line 729
RunCouncilStep3 == CouncilAt(3) /\ Step3Synthesis(InvokeResults, Len(CouncilSteps))
\* line 732
RunCouncilStep4 == CouncilAt(4) /\ Step4FinalDecision(Len(CouncilSteps))

(***************************************************************************)
(* run_group_chat                                                          *)
(***************************************************************************)
\* lines 658-672: a fresh state (no group_chat, no conversation_history key),
\* the history holding the user's message, no message collected yet
GroupChatStart(maxRounds) ==
    /\ gc_pc = "idle"
    /\ Quiescent
    /\ \E n \in 1..maxRounds, m \in UserMessages :
        /\ chat_rounds' = n
        /\ gc_user_message' = m
        /\ conversation_history' = <<Entry("You", m)>>
    /\ gc_pc' = "running"
    /\ gc_messages' = <<>>
    /\ round_log' = <<>>
    /\ state_group_chat' = Nothing
    /\ state_conversation_history' = Nothing
    /\ rd_pc' = "idle"
    /\ calls' = 0
    /\ UNCHANGED <<is_first_round, conversation_context, futures, submitted,
                   rd_idx, got, now, new_messages, h0>>
    /\ UNCHANGED <<state_synthesis_output, state_final_decision, callerVars,
                   d25Vars>>
    /\ UNCHANGED <<debateVars, step2Vars, decisionVars>>

\* lines 675 and 684: run_one_round is called on the history, as a first round
\* the first time and as a later round in the loop over range(1, chat_rounds)
GroupChatRunRound(pool, maxCalls) ==
    /\ gc_pc = "running"
    /\ rd_pc = "idle"
    /\ RunOneRoundStart(pool, maxCalls)
    /\ is_first_round' = (round_log = <<>>)

\* lines 676 and 685-688: the round's messages are added; a round without
\* messages is reported when verbose and the loop goes on
GroupChatExtend ==
    /\ gc_pc = "running"
    /\ rd_pc = "returned"
    /\ gc_messages' = gc_messages \o new_messages
    /\ round_log' = Append(round_log, new_messages)
    /\ rd_pc' = "idle"
    /\ gc_pc' = IF Len(round_log) + 1 >= chat_rounds THEN "store" ELSE "running"
    /\ UNCHANGED <<gc_user_message, chat_rounds, state_conversation_history>>
    /\ UNCHANGED <<is_first_round, conversation_context, futures, submitted,
                   rd_idx, got, now, new_messages, h0, chatVars>>
    /\ UNCHANGED <<debateVars, step2Vars, decisionVars, sessionVars>>

\* lines 690-698
GroupChatStore ==
    /\ gc_pc = "store"
    /\ state_group_chat' = Some(gc_messages)
    /\ state_conversation_history' = Some(conversation_history)
    /\ gc_pc' = "returned"
    /\ UNCHANGED <<gc_user_message, chat_rounds, gc_messages, round_log>>
    /\ UNCHANGED <<state_synthesis_output, state_final_decision, callerVars,
                   d25Vars>>
    /\ UNCHANGED <<chatVars, roundVars, debateVars, step2Vars, decisionVars>>

(***************************************************************************)
(* Initial states and specifications                                       *)
(***************************************************************************)
InitRoundVars ==
    /\ rd_pc = "idle"
    /\ is_first_round = FALSE
    /\ conversation_context = <<>>
    /\ futures = [a \in Aliases |-> Hang]
    /\ submitted = [a \in Aliases |-> [prompt |-> <<>>, context |-> <<>>]]
    /\ rd_idx = 1
    /\ got = [a \in Aliases |-> "pending"]
    /\ now = 0
    /\ new_messages = <<>>
    /\ h0 = <<>>

InitDebateVars ==
    /\ db_pc = "idle"
    /\ tagged_agents = <<>>
    /\ participating_agents = <<>>
    /\ debate_history = <<>>
    /\ debate_messages = <<>>
    /\ exchange_messages = <<>>
    /\ exchange = 0
    /\ db_idx = 1
    /\ exchanges_run = 0
    /\ replies_log = <<>>
    /\ call_log = <<>>

InitStep2Vars ==
    /\ s2_pc = "none"
    /\ s2_calls = 0
    /\ s2_futures = [r \in Roles |-> Running]
    /\ s2_now = 0
    /\ s2_handled = {}
    /\ s2_current = "Visionary"
    /\ agent_responses = EmptyDict
    /\ state_agent_responses = EmptyDict
    /\ current_step = 0

InitSessionVars ==
    /\ state_group_chat = Nothing
    /\ state_synthesis_output = Nothing
    /\ state_final_decision = Nothing
    /\ step_trace = <<>>
    /\ step_calls = 0
    /\ call_trace = <<>>
    /\ step_raised = FALSE
    /\ use_weighted_model = TRUE
    /\ d25_pc = "idle"
    /\ rounds = 0
    /\ round_num = 0
    /\ d25_idx = 1
    /\ d25_history = <<>>
    /\ group_chat_messages = <<>>
    /\ d25_calls = <<>>

InitGroupChatVars ==
    /\ gc_pc = "idle"
    /\ gc_user_message = <<>>
    /\ chat_rounds = 0
    /\ gc_messages = <<>>
    /\ round_log = <<>>
    /\ state_conversation_history = Nothing

InitDecisionVars ==
    /\ dc_pc = {}
    /\ weights = AGENT_WEIGHTS
    /\ in_agent_responses = EmptyDict
    /\ in_synthesis_output = EmptyDict
    /\ weighted_record = EmptyDict
    /\ majority_record = EmptyDict

\* one call of run_one_round on a caller's history, every behaviour of the stubs
InitRound ==
    /\ conversation_history \in InitialHistories
    /\ calls = 0
    /\ InitRoundVars /\ InitDebateVars /\ InitGroupChatVars /\ InitStep2Vars /\ InitDecisionVars
    /\ InitSessionVars

NextRound ==
    \/ RunOneRoundStart(RoundBehaviours, 1)
    \/ CollectAppend
    \/ CollectSkip
    \/ CollectException
    \/ CollectTimeout
    \/ RoundReturn

SpecRound == InitRound /\ [][NextRound]_vars

\* one call of run_one_round on a transcript of up to MaxHistory entries:
\* shorter than, as long as, and longer than the context window
MaxHistory == 12
Speakers == <<"You", "Elon", "Sam", "Sheryl", "Ray">>
SpokenTexts == <<T_SkipIt, T_ok, T_no>>
Transcript(n) ==
    [i \in 1..n |-> Entry(Speakers[((i - 1) % Len(Speakers)) + 1],
                          SpokenTexts[((i - 1) % Len(SpokenTexts)) + 1])]

InitRoundCtx ==
    /\ \E n \in 0..MaxHistory : conversation_history = Transcript(n)
    /\ calls = 0
    /\ InitRoundVars /\ InitDebateVars /\ InitGroupChatVars /\ InitStep2Vars /\ InitDecisionVars
    /\ InitSessionVars

NextRoundCtx ==
    \/ RunOneRoundStart(ChatBehaviours, 1)
    \/ CollectAppend
    \/ CollectSkip
    \/ RoundReturn

SpecRoundCtx == InitRoundCtx /\ [][NextRoundCtx]_vars

\* one call of run_tagged_debate on a caller's history
InitDebate == InitRound

NextDebate ==
    \/ RunTaggedDebateStart(TaggedInputs, 1)
    \/ DebateReply(DebateBehaviours)
    \/ DebateRaise(DebateBehaviours)
    \/ DebateCheck
    \/ DebateFinish

SpecDebate == InitDebate /\ [][NextDebate]_vars

\* one call of run_tagged_debate whose personas may answer SKIP
NextDebateSkip ==
    \/ RunTaggedDebateStart(ChatTaggedInputs, 1)
    \/ DebateReply(SkipDebateBehaviours)
    \/ DebateCheck
    \/ DebateFinish

SpecDebateSkip == InitDebate /\ [][NextDebateSkip]_vars

\* a caller making up to MaxCalls calls of run_one_round and run_tagged_debate,
\* in any order, on one conversation_history
MaxCalls == 2

InitChat == InitRound

NextChat ==
    \/ RunOneRoundStart(ChatBehaviours, MaxCalls)
    \/ CollectAppend
    \/ CollectSkip
    \/ RoundReturn
    \/ RunTaggedDebateStart(ChatTaggedInputs, MaxCalls)
    \/ DebateReply(ChatDebateBehaviours)
    \/ DebateCheck
    \/ DebateFinish

SpecChat == InitChat /\ [][NextChat]_vars

\* a session: the state is created and step 2 is called on it, again and again
InitStep2 ==
    /\ conversation_history = <<>>
    /\ calls = 0
    /\ InitRoundVars /\ InitDebateVars /\ InitGroupChatVars /\ InitStep2Vars /\ InitDecisionVars
    /\ InitSessionVars

NextStep2 ==
    \/ Step1Broadcast
    \/ Step2Start(MaxStepCalls)
    \/ \E role \in Roles : AnalyzeFinishes(role, AnalyzeOutcomes, AnalyzeTimesFast)
    \/ \E role \in Roles : Step2StoreAlias(role)
    \/ Step2StoreRole
    \/ Step2Assign

SpecStep2 == InitStep2 /\ [][NextStep2]_vars

\* one call of step 2 whose analyze calls may be fast or slow
NextStep2Timed ==
    \/ Step1Broadcast
    \/ Step2Start(1)
    \/ \E role \in Roles : AnalyzeFinishes(role, AnalyzeOutcomes, AnalyzeTimes)
    \/ \E role \in Roles : Step2StoreAlias(role)
    \/ Step2StoreRole
    \/ Step2Assign

SpecStep2Timed == InitStep2 /\ [][NextStep2Timed]_vars

\* a caller with step-level control: the state is created and up to
\* MaxSessionCalls step calls are made on it, in any order
MaxSessionCalls == 3
AnalyzeOk == { Return(T_ok) }
SessionInvokeResults ==
    { InvokeResult("structured", StructuredResponse, <<>>),
      InvokeResult("empty", EmptyDict, <<>>),
      InvokeResult("raise", EmptyDict, <<>>) }

InitSession ==
    /\ conversation_history = <<>>
    /\ calls = 0
    /\ InitRoundVars /\ InitDebateVars /\ InitGroupChatVars /\ InitStep2Vars /\ InitDecisionVars
    /\ state_group_chat = Nothing
    /\ state_synthesis_output = Nothing
    /\ state_final_decision = Nothing
    /\ step_trace = <<>>
    /\ step_calls = 0
    /\ call_trace = <<>>
    /\ step_raised = FALSE
    /\ use_weighted_model \in BOOLEAN
    /\ d25_pc = "idle"
    /\ rounds = 0
    /\ round_num = 0
    /\ d25_idx = 1
    /\ d25_history = <<>>
    /\ group_chat_messages = <<>>
    /\ d25_calls = <<>>

SessionStep2 == step_calls < MaxSessionCalls /\ Step2Start(MaxSessionCalls)

NextSession ==
    \/ Step1Broadcast
    \/ SessionStep2
    \/ \E role \in Roles : AnalyzeFinishes(role, AnalyzeOk, AnalyzeTimesFast)
    \/ \E role \in Roles : Step2StoreAlias(role)
    \/ Step2StoreRole
    \/ Step2Assign
    \/ Step25Start({1, 2}, MaxSessionCalls)
    \/ Step25Reply(ChatOutcomesOk)
    \/ Step25Store
    \/ Step3Synthesis(SessionInvokeResults, MaxSessionCalls)
    \/ Step4FinalDecision(MaxSessionCalls)

SpecSession == InitSession /\ [][NextSession]_vars

\* one call of run_council
CouncilAnalyzeOutcomes == { Return(T_ok), RaiseMsg(T_boom) }

NextCouncil ==
    \/ Step1Broadcast
    \/ RunCouncilStep2
    \/ \E role \in Roles :
          AnalyzeFinishes(role, CouncilAnalyzeOutcomes, AnalyzeTimesFast)
    \/ \E role \in Roles : Step2StoreAlias(role)
    \/ Step2StoreRole
    \/ Step2Assign
    \/ RunCouncilStep25
    \/ Step25Reply(ChatOutcomes)
    \/ Step25Raise(ChatOutcomes)
    \/ Step25Store
    \/ RunCouncilStep3
    \/ RunCouncilStep4

SpecCouncil == InitSession /\ [][NextCouncil]_vars

\* step 2.5 called twice on a fresh state, with 0, 1 or 2 rounds, the
\* personas replying or failing
NextStep25 ==
    \/ Step1Broadcast
    \/ Step25Start({0, 1, 2}, 2)
    \/ Step25Reply(ChatOutcomes)
    \/ Step25Raise(ChatOutcomes)
    \/ Step25Store

SpecStep25 == InitSession /\ [][NextStep25]_vars

\* one call of run_group_chat with 1 to MaxChatRounds rounds, each persona
\* answering or abstaining in each round
MaxChatRounds == 3

NextGroupChat ==
    \/ GroupChatStart(MaxChatRounds)
    \/ GroupChatRunRound(ChatBehaviours, MaxChatRounds)
    \/ CollectAppend
    \/ CollectSkip
    \/ RoundReturn
    \/ GroupChatExtend
    \/ GroupChatStore

SpecGroupChat == InitStep2 /\ [][NextGroupChat]_vars

\* both aggregation strategies applied to the same inputs
InitDecision ==
    /\ conversation_history = <<>>
    /\ calls = 0
    /\ InitRoundVars /\ InitDebateVars /\ InitGroupChatVars /\ InitStep2Vars /\ InitSessionVars
    /\ dc_pc = {}
    /\ \E cw \in CustomWeights : weights = InitWeights(cw)
    /\ in_agent_responses \in AgentResponsesInputs
    /\ in_synthesis_output \in SynthesisOutputs
    /\ weighted_record = EmptyDict
    /\ majority_record = EmptyDict

NextDecision == CallWeighted \/ CallMajority

SpecDecision == InitDecision /\ [][NextDecision]_vars

(***************************************************************************)
(* Properties                                                              *)
(***************************************************************************)
Pos(a) == CHOOSE i \in DOMAIN AliasOrder : AliasOrder[i] = a
\* the entries the current call has appended to the caller's list
AppendedPart == SubSeq(conversation_history, Len(h0) + 1, Len(conversation_history))
RoundOver == rd_pc \in {"shutdown", "returned"}

\* C1: after step_2_parallel_responses returns, state.agent_responses has
\* exactly the 8 keys (4 roles and 4 aliases), whichever calls raised and in
\* whatever order they completed.
C1_EightKeys ==
    s2_pc = "returned" => DOMAIN state_agent_responses = Roles \cup Aliases

\* C1 witness: the step has returned after all four analyze calls raised.
C1_Witness ==
    /\ s2_pc = "returned"
    /\ \A r \in Roles : s2_futures[r].kind = "raise"

\* C2: in every state of a session, for each persona, the role key and the
\* alias of state.agent_responses are both absent, or both present with the
\* same value.
C2_NoDivergentCopies ==
    \A r \in Roles :
        LET d == state_agent_responses
            a == agent_name_mapping[r]
        IN  \/ (r \notin DOMAIN d /\ a \notin DOMAIN d)
            \/ (r \in DOMAIN d /\ a \in DOMAIN d /\ d[r] = d[a])

\* C2 witness: a second call of the step is between its two writes for a
\* persona whose call raised (the local dict holds the alias only), while the
\* state still holds the first call's map, in which some call had raised.
C2_Witness ==
    /\ s2_pc = "store_role"
    /\ s2_calls = 2
    /\ s2_futures[s2_current].kind = "raise"
    /\ agent_name_mapping[s2_current] \in DOMAIN agent_responses
    /\ s2_current \notin DOMAIN agent_responses
    /\ \E r \in Roles : state_agent_responses[r] = ErrorText(T_boom)

\* the claim's skip: the trimmed reply is, or begins with, SKIP in any case
SaysSkip(text) ==
    LET t == Strip(text)
    IN  Len(t) >= 4 /\ Lower(SubSeq(t, 1, 4)) = <<"s", "k", "i", "p">>
Returned(a) == \E i \in DOMAIN new_messages :
    new_messages[i].agent = a /\ new_messages[i].message = futures[a].text
InTranscript(a) == \E i \in DOMAIN AppendedPart :
    AppendedPart[i] = Entry(a, futures[a].text)

\* C3: in run_one_round a reply that is a skip is neither appended to
\* conversation_history nor returned; every other reply the collection loop
\* obtained is both appended and returned.
C3_SkipNeverRecorded ==
    \A a \in Aliases :
        (got[a] \in {"appended", "skipped"}) =>
            IF SaysSkip(futures[a].text)
            THEN ~Returned(a) /\ ~InTranscript(a)
            ELSE Returned(a) /\ InTranscript(a)

\* C3 witness: the round is over; one persona's reply began with "Skip" and was
\* dropped, another's contained "skip" later in the text and was recorded.
C3_Witness ==
    /\ rd_pc = "returned"
    /\ \E a, b \in Aliases :
        /\ futures[a] = Reply(T_SkipIt, 30) /\ got[a] = "skipped"
        /\ futures[b] = Reply(T_ISkip, 25) /\ got[b] = "appended"

\* C4: the entries a round appends and returns are in the order Elon, Sam,
\* Sheryl, Ray, whatever the order in which the four calls complete.
C4_FixedOrder ==
    rd_pc # "idle" =>
        /\ \A i, j \in DOMAIN new_messages :
               i < j => Pos(new_messages[i].agent) < Pos(new_messages[j].agent)
        /\ AppendedPart = [i \in DOMAIN new_messages |->
               Entry(new_messages[i].agent, new_messages[i].message)]

\* C4 witness: the four calls completed in the order Ray, Sheryl, Sam, Elon and
\* all four replies were recorded.
C4_Witness ==
    /\ rd_pc = "returned"
    /\ Len(new_messages) = 4
    /\ futures["Ray"].lat < futures["Sheryl"].lat
    /\ futures["Sheryl"].lat < futures["Sam"].lat
    /\ futures["Sam"].lat < futures["Elon"].lat

\* C5: across calls of run_one_round and run_tagged_debate the history is
\* append-only: no step shortens it or changes an entry already there.
C5_AppendOnly ==
    [][/\ Len(conversation_history') >= Len(conversation_history)
       /\ SubSeq(conversation_history', 1, Len(conversation_history))
              = conversation_history]_vars

\* C5 witness: a debate has written its messages back to a history that an
\* earlier round had already extended.
C5_Witness ==
    /\ db_pc = "returned"
    /\ calls = 2
    /\ Len(debate_messages) > 0
    /\ Len(conversation_history) >= Len(debate_messages) + 2

\* the claim's closing signal: the reply, case ignored, contains a phrase
HasClosingPhrase(text) == \E s \in closing_signals : Contains(Lower(text), s)
ClosingExchanges == {i \in DOMAIN replies_log :
    \E j \in DOMAIN replies_log[i] : HasClosingPhrase(replies_log[i][j])}
Addressed == {tagged_agents[i] : i \in DOMAIN tagged_agents} \cap Aliases

C7_SameProjection ==
    dc_pc = {"weighted", "majority"} =>
        \A rec \in {weighted_record, majority_record} :
            /\ rec.recommended_options = in_synthesis_output.final_options
            /\ rec.key_agreements = in_synthesis_output.agreements
            /\ rec.key_conflicts = in_synthesis_output.conflicts
            /\ rec.identified_blind_spots = in_synthesis_output.blind_spots
            /\ rec.synthesis_summary = in_synthesis_output.summary

\* C7 witness: both strategies were applied to a synthesis with two options
\* and non-empty agreements, conflicts and blind spots.
C7_Witness ==
    /\ dc_pc = {"weighted", "majority"}
    /\ in_synthesis_output.final_options = <<T_optB, T_optA>>
    /\ in_synthesis_output.agreements # <<>>
    /\ in_synthesis_output.conflicts # <<>>
    /\ in_synthesis_output.blind_spots # <<>>

\* C8: a first round in which all four calls return a non-empty text (within
\* 60 units of their dispatch) appends and returns exactly 4 entries, one per
\* alias.
C8_FirstRoundFourEntries ==
    ( /\ RoundOver
      /\ is_first_round
      /\ \A a \in Aliases : /\ futures[a].kind = "reply"
                            /\ futures[a].text # <<>>
                            /\ futures[a].lat <= TimeoutUnits ) =>
        /\ Len(new_messages) = 4
        /\ Len(AppendedPart) = 4
        /\ \A a \in Aliases : Returned(a) /\ InTranscript(a)

\* C9: a call that takes longer than 60 units from its dispatch is treated as
\* failed: its reply is neither appended nor returned.
C9_SlowCallFails ==
    RoundOver =>
        \A a \in Aliases :
            (futures[a].kind = "hang" \/ futures[a].lat > TimeoutUnits) =>
                ~Returned(a) /\ ~InTranscript(a)

\* C10: once the collection loop is over, a call that timed out does not keep
\* the round from returning at once.
C10_TimedOutCallDoesNotBlock ==
    (rd_pc = "shutdown" /\ \E a \in Aliases : got[a] = "timeout") =>
        CanLeaveWith /\ ReturnTime = now

(***************************************************************************)
(* C11: an analyze call of step 2 that takes longer than the 60-unit       *)
(* per-call timeout is recorded as failed, the error placeholder under     *)
(* both of its keys, and the step returns without waiting for it: no later *)
(* than the timeout after the calls were submitted.                        *)
(***************************************************************************)
IsErrorPlaceholder(d, k) == k \in DOMAIN d /\ StartsWith(d[k], T_ErrorPrefix)

C11_SlowAnalyzeFails ==
    s2_pc = "returned" =>
        /\ s2_now <= TimeoutUnits
        /\ \A role \in Roles : s2_futures[role].at > TimeoutUnits =>
              /\ IsErrorPlaceholder(state_agent_responses, role)
              /\ IsErrorPlaceholder(state_agent_responses, agent_name_mapping[role])

(***************************************************************************)
(* C12: run_one_round contains the failures of its persona calls.  Whatever *)
(* subset of the calls raises, the collection loop still visits all four   *)
(* personas, a call that raised contributes nothing, and the messages the  *)
(* round returns are exactly the replies that arrived and are not skips,   *)
(* in persona order.                                                       *)
(***************************************************************************)
Arrived(a) == futures[a].kind = "reply" /\ got[a] # "timeout"
ExpectedSpeakers ==
    SelectSeq(AliasOrder, LAMBDA a : Arrived(a) /\ ~SaysSkip(futures[a].text))

C12_RaisesAreContained ==
    RoundOver =>
        /\ \A a \in Aliases : got[a] # "pending"
        /\ \A a \in Aliases : futures[a].kind = "raise" => ~Returned(a)
        /\ Len(new_messages) = Len(ExpectedSpeakers)
        /\ \A i \in DOMAIN new_messages :
              /\ new_messages[i].agent = ExpectedSpeakers[i]
              /\ new_messages[i].message = futures[ExpectedSpeakers[i]].text

\* three of the four calls raised and the round returned the fourth's reply
C12_Witness ==
    /\ rd_pc = "returned"
    /\ Cardinality({a \in Aliases : got[a] = "raised"}) = 3
    /\ Len(new_messages) = 1

(***************************************************************************)
(* C13: in run_one_round the four personas are given one and the same      *)
(* context: the last ContextWindow entries (all of them when there are no  *)
(* more) of conversation_history as it stood when the round began, joined  *)
(* by newlines.  The prompt is an entry of that history (first round) or   *)
(* wraps that context (later rounds), so neither holds a reply of the      *)
(* round itself.                                                           *)
(***************************************************************************)
RECURSIVE LinesFrom(_, _)
LinesFrom(h, i) ==
    IF i > Len(h) THEN <<>>
    ELSE h[i] \o (IF i < Len(h) THEN <<"\n">> ELSE <<>>) \o LinesFrom(h, i + 1)
SnapshotText(h) ==
    LinesFrom(h, IF Len(h) > ContextWindow THEN Len(h) - ContextWindow + 1 ELSE 1)

C13_SameSnapshot ==
    rd_pc # "idle" =>
        \A a \in Aliases :
            /\ submitted[a].context = SnapshotText(h0)
            /\ submitted[a] = submitted[AliasOrder[1]]
            /\ IF is_first_round
               THEN submitted[a].prompt \in Range(h0) \cup {<<>>}
               ELSE submitted[a].prompt =
                        SkipPromptHead \o SnapshotText(h0) \o SkipPromptTail

\* a later round on a history longer than the window, in which replies were
\* produced
C13_Witness ==
    /\ rd_pc = "returned"
    /\ ~is_first_round
    /\ Len(h0) > ContextWindow
    /\ Len(new_messages) >= 2

(***************************************************************************)
(* C14, as claimed: within one exchange of run_tagged_debate the calls of  *)
(* the addressed personas run concurrently: a later persona's call is      *)
(* under way before an earlier persona's call of the same exchange has     *)
(* ended.                                                                  *)
(***************************************************************************)
SameExchangePairs ==
    {p \in (DOMAIN call_log) \X (DOMAIN call_log) :
        p[1] < p[2] /\ call_log[p[1]].exchange = call_log[p[2]].exchange}

C15_NoValidAlias ==
    (db_pc # "idle" /\ Addressed \cap Aliases = {}) =>
        /\ db_pc = "returned"
        /\ debate_messages = <<>>
        /\ call_log = <<>>
        /\ exchanges_run = 0
        /\ conversation_history = h0

\* the debate was called with a name that is no persona's alias
C15_Witness ==
    /\ db_pc = "returned"
    /\ tagged_agents # <<>>
    /\ Addressed \cap Aliases = {}
    /\ conversation_history # <<>>

(***************************************************************************)
(* C16: when run_tagged_debate has returned, the entries it appended to    *)
(* the caller's conversation_history are exactly the replies of the        *)
(* debate: one entry per call that returned, exchange after exchange, and  *)
(* within an exchange in the order the personas were addressed in          *)
(* tagged_agents.                                                          *)
(***************************************************************************)
FirstPos(tagged, a) ==
    CHOOSE i \in DOMAIN tagged :
        tagged[i] = a /\ \A j \in 1..(i - 1) : tagged[j] # a
DebateReplies == SelectSeq(call_log, LAMBDA c : c.kind = "reply")

C16_WriteBackOrder ==
    db_pc = "returned" =>
        /\ Len(AppendedPart) = Len(DebateReplies)
        /\ \A i \in DOMAIN AppendedPart :
              AppendedPart[i] = Entry(DebateReplies[i].agent, DebateReplies[i].text)
        /\ \A i, j \in DOMAIN call_log : i < j =>
              \/ call_log[i].exchange < call_log[j].exchange
              \/ /\ call_log[i].exchange = call_log[j].exchange
                 /\ FirstPos(tagged_agents, call_log[i].agent)
                        < FirstPos(tagged_agents, call_log[j].agent)

\* three personas addressed out of roster order, two exchanges or more
C16_Witness ==
    /\ db_pc = "returned"
    /\ tagged_agents = <<"Sam", "Ray", "Elon">>
    /\ Len(AppendedPart) >= 6
    /\ AppendedPart[1] = Entry("Sam", T_no)
    /\ AppendedPart[2] = Entry("Ray", T_no)

(***************************************************************************)
(* C17: whatever weights the orchestrator was configured with, default or  *)
(* custom, the weights_used and the weight_breakdown of a weighted         *)
(* decision have an entry for each of the four personas and for nothing    *)
(* else.                                                                   *)
(***************************************************************************)
C17_ExactlyFourPersonas ==
    "weighted" \in dc_pc =>
        /\ DOMAIN weighted_record.weights_used = Aliases
        /\ DOMAIN weighted_record.weight_breakdown = Aliases

(***************************************************************************)
(* C18: the record _majority_voting makes from the agent_responses that    *)
(* step 2 leaves has one preview per persona, under the four display       *)
(* aliases and no other key, and carries no weights_used and no            *)
(* weight_breakdown.                                                       *)
(***************************************************************************)
C18_MajorityAliasKeys ==
    "majority" \in dc_pc =>
        /\ DOMAIN majority_record.agent_responses = Aliases
        /\ "weights_used" \notin DOMAIN majority_record
        /\ "weight_breakdown" \notin DOMAIN majority_record

(***************************************************************************)
(* C19: whatever step-level calls a caller makes on one CouncilState, and  *)
(* in whatever order, no call lowers current_step.                         *)
(***************************************************************************)
C19_NeverDecreases == [][current_step' >= current_step]_vars

(***************************************************************************)
(* C20: run_council gives current_step the values 1, 2, 2.5, 3, 4 in that  *)
(* order, none left out and none twice; it never ends by raising, whether  *)
(* persona calls or the synthesis call fail; and when its last step is     *)
(* done, agent_responses, group_chat, synthesis_output and final_decision  *)
(* are all set.                                                            *)
(***************************************************************************)
C20_ReachesDecision ==
    /\ step_trace = SubSeq(CouncilSteps, 1, Len(step_trace))
    /\ ~step_raised
    /\ Len(step_trace) = Len(CouncilSteps) =>
          /\ current_step = 40
          /\ DOMAIN state_agent_responses = Roles \cup Aliases
          /\ state_group_chat # Nothing
          /\ state_synthesis_output # Nothing
          /\ state_final_decision # Nothing

\* the step-level call made last on the state
LastCall == IF call_trace = <<>> THEN "none" ELSE call_trace[Len(call_trace)]

(***************************************************************************)
(* C21: within a session synthesis_output stays absent until               *)
(* step_3_synthesis runs, and once it is set no later step-level call      *)
(* replaces it.                                                            *)
(***************************************************************************)
C21_SetAtMostOnce ==
    [][/\ state_synthesis_output # Nothing =>
             state_synthesis_output' = state_synthesis_output
       /\ state_synthesis_output' # state_synthesis_output =>
             call_trace'[Len(call_trace')] = "step_3_synthesis"]_vars

(***************************************************************************)
(* C22: in every state of a session, whatever the order of the step-level  *)
(* calls, final_decision is set only if synthesis_output is set;           *)
(* step_4_final_decision called while synthesis_output is absent raises    *)
(* and stores no decision.                                                 *)
(***************************************************************************)
C22_DecisionNeedsSynthesis ==
    /\ state_final_decision # Nothing => state_synthesis_output # Nothing
    /\ (LastCall = "step_4_final_decision" /\ state_synthesis_output = Nothing) =>
          step_raised /\ state_final_decision = Nothing

\* step 4 was called after step 2 and before any synthesis
C22_Witness ==
    /\ LastCall = "step_4_final_decision"
    /\ state_synthesis_output = Nothing
    /\ step_raised
    /\ DOMAIN state_agent_responses = Roles \cup Aliases

(***************************************************************************)
(* C23: a failure inside the synthesis capability never reaches the        *)
(* orchestrator: whatever the model invocation does, step_3_synthesis      *)
(* returns normally, having stored a synthesis record (a degraded one,     *)
(* four empty lists, when the invocation failed) and advanced the step     *)
(* to 3.                                                                   *)
(***************************************************************************)
C23_SynthesisNeverRaises ==
    LastCall = "step_3_synthesis" =>
        /\ ~step_raised
        /\ state_synthesis_output # Nothing
        /\ DOMAIN state_synthesis_output[1] =
               {"summary", "agreements", "conflicts", "blind_spots", "final_options"}
        /\ current_step = 30

(***************************************************************************)
(* C24: the shared session data is written only when every persona call   *)
(* the step dispatched has finished: run_one_round appends to              *)
(* conversation_history, and step 2 assigns state.agent_responses, at no   *)
(* moment at which one of the step's calls is still running.               *)
(***************************************************************************)
StillRunning(a, t) == futures[a].kind = "hang" \/ futures[a].lat > t

C24_WritesAfterJoin ==
    [][/\ (rd_pc = "collect" /\ conversation_history' # conversation_history) =>
             \A a \in Aliases : ~StillRunning(a, now')
       /\ state_agent_responses' # state_agent_responses =>
             \A r \in Roles : s2_futures[r].kind # "running"]_vars

(***************************************************************************)
(* C25, as claimed: in each round of step_2_5_debate the four personas are *)
(* given one and the same context, taken when the round starts.            *)
(***************************************************************************)
C25_SameSnapshotPerRound ==
    \A i, j \in DOMAIN d25_calls :
        d25_calls[i].round = d25_calls[j].round =>
            d25_calls[i].context = d25_calls[j].context

(***************************************************************************)
(* C25, amended: each persona is given the context built when its own      *)
(* call is made: the last ContextWindow entries of the step's transcript   *)
(* at that moment, the initial responses followed by every reply or error  *)
(* placeholder produced so far, those of the same round included.          *)
(***************************************************************************)
HistoryBeforeCall(i) ==
    InitialHistory(state_agent_responses) \o
        [j \in 1..(i - 1) |->
            Entry(group_chat_messages[j].agent, group_chat_messages[j].message)]

C25_ContextAtCallTime ==
    \A i \in DOMAIN d25_calls :
        d25_calls[i].context = SnapshotText(HistoryBeforeCall(i))

\* two rounds are over, a call has raised, and the last call's transcript was
\* longer than the window
C25_Witness ==
    /\ d25_pc = "idle"
    /\ Len(d25_calls) = 2 * Len(AliasOrder)
    /\ \E i \in DOMAIN d25_calls : d25_calls[i].outcome.kind = "raise"
    /\ Len(HistoryBeforeCall(Len(d25_calls))) > ContextWindow

(***************************************************************************)
(* C26: a call of step_2_5_debate with rounds = R never raises and, when   *)
(* it stores its result, state.group_chat is what it was before followed   *)
(* by 4*R new entries, R blocks in the order Elon, Sam, Sheryl, Ray, the   *)
(* k-th entry holding the k-th call's reply or its error placeholder.      *)
(***************************************************************************)
GroupChatOf(gc) == IF gc = Nothing THEN <<>> ELSE gc[1]
RecordedFor(c) ==
    IF c.outcome.kind = "return" THEN c.outcome.text ELSE ErrorText(c.outcome.text)

C26_FourEntriesPerRound ==
    [][/\ LastCall = "step_2_5_debate" => ~step_raised
       /\ (d25_pc = "store" /\ d25_pc' = "idle") =>
            LET old == GroupChatOf(state_group_chat)
                new == GroupChatOf(state_group_chat')
                n   == Len(AliasOrder)
            IN  /\ state_group_chat' # Nothing
                /\ Len(new) = Len(old) + n * rounds
                /\ SubSeq(new, 1, Len(old)) = old
                /\ Len(d25_calls) = n * rounds
                /\ \A k \in 1..(n * rounds) :
                      /\ new[Len(old) + k].agent = AliasOrder[((k - 1) % n) + 1]
                      /\ new[Len(old) + k].agent = d25_calls[k].agent
                      /\ d25_calls[k].round = (k - 1) \div n
                      /\ new[Len(old) + k].message = RecordedFor(d25_calls[k])
                /\ ~step_raised']_vars

\* a second call has stored its rounds after those of the first, and a persona
\* failed on the way
C26_Witness ==
    /\ d25_pc = "idle"
    /\ step_calls = 2
    /\ Len(GroupChatOf(state_group_chat)) = 3 * Len(AliasOrder)
    /\ rounds = 2
    /\ \E k \in DOMAIN GroupChatOf(state_group_chat) :
          GroupChatOf(state_group_chat)[k].message = ErrorText(T_boom)
    /\ \E k \in DOMAIN d25_calls : d25_calls[k].outcome.kind = "raise"

(***************************************************************************)
(* C27: a step-level call that raises leaves every field of the state,     *)
(* current_step included, as it was before the call; a step that writes    *)
(* the state writes its whole result at once: the responses of all four    *)
(* personas under both keys, four group-chat entries per round.            *)
(***************************************************************************)
StateFields ==
    <<state_agent_responses, state_group_chat, state_synthesis_output,
      state_final_decision, current_step>>

C27_NoPartialUpdate ==
    [][/\ (step_calls' # step_calls /\ step_raised') => UNCHANGED StateFields
       /\ state_agent_responses' # state_agent_responses =>
             \/ state_agent_responses' = EmptyDict
             \/ /\ DOMAIN state_agent_responses' = Roles \cup Aliases
                /\ current_step' = 20
       /\ (state_group_chat' # Nothing /\ state_group_chat' # state_group_chat) =>
             /\ Len(GroupChatOf(state_group_chat')) =
                    Len(GroupChatOf(state_group_chat)) + Len(AliasOrder) * rounds
             /\ current_step' = 25]_vars

\* step 3 has raised on a state holding the results of steps 2 and 2.5
C27_Witness ==
    /\ step_raised
    /\ LastCall = "step_3_synthesis"
    /\ DOMAIN state_agent_responses = Roles \cup Aliases
    /\ state_group_chat # Nothing
    /\ state_synthesis_output = Nothing
    /\ current_step = 25

(***************************************************************************)
(* C28: a chat_response reply that is the SKIP token, or starts with it,   *)
(* is an abstention in run_tagged_debate as it is in run_one_round: it is  *)
(* neither among the messages the debate returns nor among the entries it  *)
(* appends to the transcript.                                              *)
(***************************************************************************)
C28_DebateDropsSkip ==
    db_pc = "returned" =>
        /\ \A i \in DOMAIN debate_messages : ~SaysSkip(debate_messages[i].message)
        /\ \A i \in DOMAIN AppendedPart :
              \A a \in Aliases :
                  AppendedPart[i] \notin {Entry(a, T_SKIP), Entry(a, T_SkipIt)}

(***************************************************************************)
(* C29: in run_one_round a persona is offered the SKIP option exactly when *)
(* the round is not a first round; in a first round it is asked to answer  *)
(* the last "You:" entry of the transcript, whatever its text.             *)
(***************************************************************************)
C29_SkipOnlyAfterFirstRound ==
    rd_pc # "idle" =>
        \A a \in Aliases :
            /\ is_first_round => submitted[a].prompt = LastUserMessage(h0)
            /\ OffersSkip(submitted[a].prompt) <=> ~is_first_round

(***************************************************************************)
(* C30: run_group_chat with chat_rounds = N breaks early: a later round    *)
(* that returns no messages is the last one run, and N rounds are run when *)
(* no such round occurs.  On return state.group_chat is the rounds'        *)
(* messages in order and state.conversation_history is the user's message  *)
(* followed by the same replies.                                           *)
(***************************************************************************)
RECURSIVE ConcatAll(_)
ConcatAll(lists) ==
    IF lists = <<>> THEN <<>> ELSE Head(lists) \o ConcatAll(Tail(lists))

C30_BreaksEarly ==
    gc_pc = "returned" =>
        LET n   == Len(round_log)
            all == ConcatAll(round_log)
        IN  /\ \A k \in 2..(n - 1) : round_log[k] # <<>>
            /\ (\A k \in 2..n : round_log[k] # <<>>) => n = chat_rounds
            /\ state_group_chat = Some(all)
            /\ state_conversation_history =
                   Some(<<Entry("You", gc_user_message)>> \o
                        [i \in DOMAIN all |-> Entry(all[i].agent, all[i].message)])

\* the same without the early break: every call runs chat_rounds rounds
GroupChatRunsAllRounds ==
    gc_pc = "returned" =>
        LET all == ConcatAll(round_log)
        IN  /\ Len(round_log) = chat_rounds
            /\ state_group_chat = Some(all)
            /\ state_conversation_history =
                   Some(<<Entry("You", gc_user_message)>> \o
                        [i \in DOMAIN all |-> Entry(all[i].agent, all[i].message)])

====
